---- MODULE Spec2Model ----
(***************************************************************************)
(* Price-monitoring API (Flask): the in-memory catalog price_data and the  *)
(* four query handlers get_all_prices, get_product_price,                  *)
(* get_price_history and compare_prices.                                   *)
(*                                                                         *)
(* Representation.                                                         *)
(*  - A Python str is a sequence of one-character strings.  The module is  *)
(*    ASCII, so the two CJK characters that prefix every product name are  *)
(*    written "c","p": the key of the first product is <<"c","p","A">>.    *)
(*    A character with no TLA+ escape is written as its code point: the    *)
(*    ideographic space is the one character "U+3000".                     *)
(*  - A Python dict keyed by product name (price_data, result) keeps its   *)
(*    insertion order: it is a sequence of <<key, value>> pairs with       *)
(*    distinct keys.  A dict with fixed field names is a record.           *)
(*  - A date "2024-01-15" is the triple <<2024, 1, 15>>; the order of the  *)
(*    ISO text is the lexicographic order of the triple.                   *)
(*  - datetime.now() is the variable now, a clock that moves on by one     *)
(*    tick each time a response has been sent, up to MaxClock.             *)
(*  - jsonify turns a name-keyed dict into a JSON object, which has no     *)
(*    key order: a function from names to values.  Lists stay sequences.   *)
(***************************************************************************)
EXTENDS Integers, Sequences, FiniteSets, TLC

VARIABLES price_data, now, request, asked, response

vars == <<price_data, now, request, asked, response>>

----------------------------------------------------------------------------
(* Bounds *)

\* Longest list of names a client joins into one compare query.
MaxNames == 3

\* The clock stops advancing at this value.
MaxClock == 1

----------------------------------------------------------------------------
(* Python built-ins used by the handlers *)

\* The characters str.strip() removes: the 29 characters of Python 3 for
\* which str.isspace() is true.
Whitespace ==
    { "\t", "\n", "U+000B", "\f", "\r",
      "U+001C", "U+001D", "U+001E", "U+001F", " ",
      "U+0085", "U+00A0", "U+1680",
      "U+2000", "U+2001", "U+2002", "U+2003", "U+2004", "U+2005",
      "U+2006", "U+2007", "U+2008", "U+2009", "U+200A",
      "U+2028", "U+2029", "U+202F", "U+205F", "U+3000" }

RECURSIVE lstrip(_)
lstrip(s) ==
    IF s # <<>> /\ Head(s) \in Whitespace THEN lstrip(Tail(s)) ELSE s

RECURSIVE rstrip(_)
rstrip(s) ==
    IF s # <<>> /\ s[Len(s)] \in Whitespace
    THEN rstrip(SubSeq(s, 1, Len(s) - 1))
    ELSE s

\* The slip of calling lstrip: only leading whitespace is removed.
strip_leading_only(s) == lstrip(s)

\* str.strip() with no argument.
strip(s) == rstrip(lstrip(s))

\* Index of the first occurrence of character sep in s, 0 when absent.
RECURSIVE find(_, _, _)
find(s, sep, i) ==
    IF i > Len(s) THEN 0
    ELSE IF s[i] = sep THEN i
    ELSE find(s, sep, i + 1)

\* str.split(sep): always at least one piece, "" splits to [""].
RECURSIVE split(_, _)
split(s, sep) ==
    LET i == find(s, sep, 1)
    IN  IF i = 0 THEN <<s>>
        ELSE <<SubSeq(s, 1, i - 1)>> \o split(SubSeq(s, i + 1, Len(s)), sep)

\* sep.join(list), the way a client builds the products parameter.
RECURSIVE join(_, _)
join(list, sep) ==
    IF list = <<>> THEN <<>>
    ELSE IF Len(list) = 1 THEN list[1]
    ELSE list[1] \o <<sep>> \o join(Tail(list), sep)

\* list(d.keys())
dict_keys(d) == [i \in 1..Len(d) |-> d[i][1]]

\* k in d
dict_has(d, k) == \E i \in 1..Len(d) : d[i][1] = k

\* d[k] for a key that is present
dict_get(d, k) == d[CHOOSE i \in 1..Len(d) : d[i][1] = k][2]

\* d[k] = v: a present key keeps its position, a new key is appended.
dict_set(d, k, v) ==
    IF dict_has(d, k)
    THEN [i \in 1..Len(d) |-> IF d[i][1] = k THEN <<k, v>> ELSE d[i]]
    ELSE Append(d, <<k, v>>)

\* request.args.get(key, default)
args_get(args, key, default) ==
    IF key \in DOMAIN args THEN args[key] ELSE default

\* min(items, key=lambda x: x[1]) on a non-empty list: the first minimal item.
RECURSIVE min_from(_, _, _)
min_from(items, i, best) ==
    IF i > Len(items) THEN best
    ELSE min_from(items, i + 1, IF items[i][2] < best[2] THEN items[i] ELSE best)

\* The slip of comparing with <=: the last of several minimal items wins.
RECURSIVE min_from_last(_, _, _)
min_from_last(items, i, best) ==
    IF i > Len(items) THEN best
    ELSE min_from_last(items, i + 1,
                       IF items[i][2] <= best[2] THEN items[i] ELSE best)

py_min_last(items) == min_from_last(items, 2, items[1])

py_min(items) == min_from(items, 2, items[1])

\* max(items, key=lambda x: x[1]) on a non-empty list: the first maximal item.
RECURSIVE max_from(_, _, _)
max_from(items, i, best) ==
    IF i > Len(items) THEN best
    ELSE max_from(items, i + 1, IF items[i][2] > best[2] THEN items[i] ELSE best)

\* The slip of calling min where max was meant.
py_max_as_min(items) == min_from(items, 2, items[1])

py_max(items) == max_from(items, 2, items[1])

\* list(d.items()): the pairs in insertion order.
dict_items(d) == d

\* jsonify of a name-keyed dict: a JSON object, a mapping without order.
json_object(d) ==
    [k \in {d[i][1] : i \in 1..Len(d)} |-> dict_get(d, k)]

----------------------------------------------------------------------------
(* The catalog *)

ProductA == <<"c", "p", "A">>
ProductB == <<"c", "p", "B">>
ProductC == <<"c", "p", "C">>

\* price_data as the module body builds it; t is datetime.now() at import.
seed(t) ==
    << <<ProductA,
         [current_price |-> 1200, last_update |-> t,
          history |-> << [date |-> <<2024, 1, 1>>,  price |-> 1000],
                         [date |-> <<2024, 1, 15>>, price |-> 1100],
                         [date |-> <<2024, 2, 1>>,  price |-> 1200] >>]>>,
       <<ProductB,
         [current_price |-> 850, last_update |-> t,
          history |-> << [date |-> <<2024, 1, 1>>,  price |-> 900],
                         [date |-> <<2024, 1, 15>>, price |-> 875],
                         [date |-> <<2024, 2, 1>>,  price |-> 850] >>]>>,
       <<ProductC,
         [current_price |-> 1500, last_update |-> t,
          history |-> << [date |-> <<2024, 1, 1>>,  price |-> 1400],
                         [date |-> <<2024, 1, 15>>, price |-> 1450],
                         [date |-> <<2024, 2, 1>>,  price |-> 1500] >>]>> >>

----------------------------------------------------------------------------
(* Requests *)

NoRequest == [endpoint |-> "none"]
NoResponse == [status |-> 0]

\* Names a client may put in a URL: the catalog's names, bare and padded
\* with whitespace, unknown names, the empty and the blank name.
RawNames ==
    { ProductA, ProductB, ProductC,
      <<" ">> \o ProductA \o <<"\t">>,
      <<"\n">> \o ProductB \o <<"U+3000">>,
      <<"c", "p", "X">>,
      <<"c", " ", "p", "A">>,
      <<>>,
      <<" ">> }

RECURSIVE NameLists(_)
NameLists(n) ==
    IF n = 0 THEN {<<>>}
    ELSE LET shorter == NameLists(n - 1)
         IN  shorter \cup
             {Append(l, r) : l \in {s \in shorter : Len(s) = n - 1}, r \in RawNames}

AskedLists == NameLists(MaxNames)

\* The <product> segment of a route is a non-empty string.
PathNames == RawNames \ {<<>>}

----------------------------------------------------------------------------
(* Handlers: the response each view function returns *)

get_all_prices_view(pd, t) ==
    [status |-> 200,
     body |-> [success |-> TRUE, data |-> json_object(pd), timestamp |-> t]]

\* The slip of answering with a summary: the record without its history.
get_product_price_summary(pd, t, product) ==
    IF dict_has(pd, product)
    THEN [status |-> 200,
          body |-> [success |-> TRUE, product |-> product,
                    data |-> [current_price |-> dict_get(pd, product).current_price,
                              last_update |-> dict_get(pd, product).last_update],
                    timestamp |-> t]]
    ELSE [status |-> 404,
          body |-> [success |-> FALSE, error |-> <<"product not found", product>>,
                    available_products |-> dict_keys(pd)]]

\* The slip of trimming the path segment before the lookup.
get_product_price_trimming(pd, t, product) ==
    IF dict_has(pd, strip(product))
    THEN [status |-> 200,
          body |-> [success |-> TRUE, product |-> strip(product),
                    data |-> dict_get(pd, strip(product)), timestamp |-> t]]
    ELSE [status |-> 404,
          body |-> [success |-> FALSE, error |-> <<"product not found", product>>,
                    available_products |-> dict_keys(pd)]]

get_product_price_view(pd, t, product) ==
    IF dict_has(pd, product)
    THEN [status |-> 200,
          body |-> [success |-> TRUE, product |-> product,
                    data |-> dict_get(pd, product), timestamp |-> t]]
    ELSE [status |-> 404,
          body |-> [success |-> FALSE, error |-> <<"product not found", product>>,
                    available_products |-> dict_keys(pd)]]

\* The slip of listing the newest entry first.
get_price_history_newest_first(pd, t, product) ==
    IF dict_has(pd, product)
    THEN LET h == dict_get(pd, product).history
         IN  [status |-> 200,
              body |-> [success |-> TRUE, product |-> product,
                        history |-> [i \in 1..Len(h) |-> h[Len(h) + 1 - i]],
                        timestamp |-> t]]
    ELSE [status |-> 404,
          body |-> [success |-> FALSE, error |-> <<"product not found", product>>]]

get_price_history_view(pd, t, product) ==
    IF dict_has(pd, product)
    THEN [status |-> 200,
          body |-> [success |-> TRUE, product |-> product,
                    history |-> dict_get(pd, product).history, timestamp |-> t]]
    ELSE [status |-> 404,
          body |-> [success |-> FALSE, error |-> <<"product not found", product>>]]

\* The loop of compare_prices: result after the products from index i on.
RECURSIVE collect(_, _, _, _)
collect(pd, products, i, result) ==
    IF i > Len(products) THEN result
    ELSE LET product == strip(products[i])
         IN  collect(pd, products, i + 1,
                     IF dict_has(pd, product)
                     THEN dict_set(result, product, dict_get(pd, product).current_price)
                     ELSE result)

\* The dict result that compare_prices builds from the request's arguments.
compare_result(pd, args) ==
    collect(pd, split(args_get(args, "products", <<>>), ","), 1, <<>>)

\* The slip of leaving out the test for an empty result: min() of an empty
\* list raises, and the handler's except clause answers 500.
compare_prices_unchecked(pd, t, args) ==
    LET result == compare_result(pd, args)
    IN  IF result = <<>>
        THEN [status |-> 500,
              body |-> [success |-> FALSE, error |-> "min() arg is an empty sequence"]]
        ELSE LET cheapest == py_min(dict_items(result))
                 expensive == py_max(dict_items(result))
             IN  [status |-> 200,
                  body |-> [success |-> TRUE,
                            comparison |-> json_object(result),
                            cheapest |-> [product |-> cheapest[1],
                                          price |-> cheapest[2]],
                            most_expensive |-> [product |-> expensive[1],
                                                price |-> expensive[2]],
                            timestamp |-> t]]

\* The slip of taking the maximum over the whole catalog, not over result.
compare_prices_max_of_catalog(pd, t, args) ==
    LET result == compare_result(pd, args)
        all == [i \in 1..Len(pd) |-> <<pd[i][1], pd[i][2].current_price>>]
    IN  IF result = <<>>
        THEN [status |-> 400,
              body |-> [success |-> FALSE, error |-> "no valid product name",
                        example |-> "/api/prices/compare?products=cpA,cpB"]]
        ELSE LET cheapest == py_min(dict_items(result))
                 expensive == py_max(all)
             IN  [status |-> 200,
                  body |-> [success |-> TRUE,
                            comparison |-> json_object(result),
                            cheapest |-> [product |-> cheapest[1],
                                          price |-> cheapest[2]],
                            most_expensive |-> [product |-> expensive[1],
                                                price |-> expensive[2]],
                            timestamp |-> t]]

compare_prices_view(pd, t, args) ==
    LET result == compare_result(pd, args)
    IN  IF result = <<>>
        THEN [status |-> 400,
              body |-> [success |-> FALSE, error |-> "no valid product name",
                        example |-> "/api/prices/compare?products=cpA,cpB"]]
        ELSE LET cheapest == py_min(dict_items(result))
                 expensive == py_max(dict_items(result))
             IN  [status |-> 200,
                  body |-> [success |-> TRUE,
                            comparison |-> json_object(result),
                            cheapest |-> [product |-> cheapest[1],
                                          price |-> cheapest[2]],
                            most_expensive |-> [product |-> expensive[1],
                                                price |-> expensive[2]],
                            timestamp |-> t]]

----------------------------------------------------------------------------
(* Actions *)

Idle == request.endpoint = "none"
Pending(e) == request.endpoint = e /\ response.status = 0

\* A client asks for GET /api/prices.
AskAll ==
    /\ Idle
    /\ request' = [endpoint |-> "get_all_prices"]
    /\ UNCHANGED <<price_data, now, asked, response>>

\* A client asks for GET /api/prices/<product>.
AskProduct ==
    /\ Idle
    /\ \E p \in PathNames :
          request' = [endpoint |-> "get_product_price", product |-> p]
    /\ UNCHANGED <<price_data, now, asked, response>>

\* A client asks for GET /api/prices/<product>/history.
AskHistory ==
    /\ Idle
    /\ \E p \in PathNames :
          request' = [endpoint |-> "get_price_history", product |-> p]
    /\ UNCHANGED <<price_data, now, asked, response>>

\* A client asks for GET /api/prices/compare?products=<names joined by commas>.
AskCompare ==
    /\ Idle
    /\ \E names \in AskedLists :
          /\ asked' = names
          /\ request' = [endpoint |-> "compare_prices",
                         args |-> [products |-> join(names, ",")]]
    /\ UNCHANGED <<price_data, now, response>>

\* A client asks for GET /api/prices/compare with no products parameter.
AskCompareNoParam ==
    /\ Idle
    /\ asked' = <<>>
    /\ request' = [endpoint |-> "compare_prices", args |-> <<>>]
    /\ UNCHANGED <<price_data, now, response>>

get_all_prices ==
    /\ Pending("get_all_prices")
    /\ response' = get_all_prices_view(price_data, now)
    /\ UNCHANGED <<price_data, now, request, asked>>

\* The slip of looking the name up with setdefault: an unknown name is
\* inserted into the catalog.
get_product_price_inserting ==
    /\ Pending("get_product_price")
    /\ response' = get_product_price_view(price_data, now, request.product)
    /\ price_data' =
          IF dict_has(price_data, request.product) THEN price_data
          ELSE dict_set(price_data, request.product,
                        [current_price |-> 0, last_update |-> now, history |-> <<>>])
    /\ UNCHANGED <<now, request, asked>>

get_product_price ==
    /\ Pending("get_product_price")
    /\ response' = get_product_price_view(price_data, now, request.product)
    /\ UNCHANGED <<price_data, now, request, asked>>

get_price_history ==
    /\ Pending("get_price_history")
    /\ response' = get_price_history_view(price_data, now, request.product)
    /\ UNCHANGED <<price_data, now, request, asked>>

compare_prices ==
    /\ Pending("compare_prices")
    /\ response' = compare_prices_view(price_data, now, request.args)
    /\ UNCHANGED <<price_data, now, request, asked>>

\* The response has been sent; the server waits for the next request.
Close ==
    /\ response.status # 0
    /\ request' = NoRequest
    /\ response' = NoResponse
    /\ asked' = <<>>
    /\ now' = IF now < MaxClock THEN now + 1 ELSE now
    /\ UNCHANGED price_data

Init ==
    /\ now = 0
    /\ price_data = seed(0)
    /\ request = NoRequest
    /\ asked = <<>>
    /\ response = NoResponse

Next ==
    \/ AskAll
    \/ AskProduct
    \/ AskHistory
    \/ AskCompare
    \/ AskCompareNoParam
    \/ get_all_prices
    \/ get_product_price
    \/ get_price_history
    \/ compare_prices
    \/ Close

Spec == Init /\ [][Next]_vars

\* The current prices found in the seed.
Prices == {850, 1200, 1500}

\* The seed with the current prices p[1], p[2], p[3] in place of its own.
repriced(pd, p) ==
    [i \in 1..Len(pd) |-> <<pd[i][1], [pd[i][2] EXCEPT !.current_price = p[i]]>>]

\* The handlers over every catalog that has the seed's names and histories
\* and any of the seed's prices, equal prices included.
InitAnyCatalog ==
    /\ now = 0
    /\ price_data \in {repriced(seed(0), p) : p \in [1..3 -> Prices]}
    /\ request = NoRequest
    /\ asked = <<>>
    /\ response = NoResponse

SpecAnyCatalog == InitAnyCatalog /\ [][Next]_vars

----------------------------------------------------------------------------
(* Vocabulary of the properties *)

\* The handler of endpoint e has answered the request in flight.
Done(e) == request.endpoint = e /\ response.status # 0

\* The names the catalog holds.
CatalogNames == {price_data[i][1] : i \in 1..Len(price_data)}

\* The catalog's record of a name it holds.
RecordOf(n) ==
    price_data[CHOOSE i \in 1..Len(price_data) : price_data[i][1] = n][2]

\* A name without its leading and trailing whitespace.
Trimmed(n) ==
    LET solid == {i \in 1..Len(n) : n[i] \notin Whitespace}
    IN  IF solid = {} THEN <<>>
        ELSE SubSeq(n, CHOOSE i \in solid : \A j \in solid : i <= j,
                       CHOOSE i \in solid : \A j \in solid : i >= j)

\* The distinct trimmed names of the client's list that the catalog holds.
Resolved == {Trimmed(asked[i]) : i \in 1..Len(asked)} \cap CatalogNames

\* Where a resolved name first occurs in the client's list.
FirstAsked(n) ==
    CHOOSE i \in 1..Len(asked) :
        /\ Trimmed(asked[i]) = n
        /\ \A j \in 1..Len(asked) : Trimmed(asked[j]) = n => i <= j

\* Dates in calendar order.
DateLeq(a, b) ==
    \/ a[1] < b[1]
    \/ a[1] = b[1] /\ a[2] < b[2]
    \/ a[1] = b[1] /\ a[2] = b[2] /\ a[3] <= b[3]

\* A history that is not empty and runs by non-decreasing date.
WellOrdered(h) ==
    /\ Len(h) >= 1
    /\ \A i \in 1..Len(h) : \A j \in 1..Len(h) : i <= j => DateLeq(h[i].date, h[j].date)

----------------------------------------------------------------------------
(* Properties *)

\* C1: whenever compare succeeds, cheapest is a name/price pair of the
\* compared mapping whose price is <= every price of the mapping, and
\* most_expensive is a pair of the mapping whose price is >= every price.
C1_ExtremaOfMapping ==
    Done("compare_prices") /\ response.status = 200 =>
        LET b == response.body
            m == b.comparison
        IN  /\ b.cheapest.product \in DOMAIN m
            /\ m[b.cheapest.product] = b.cheapest.price
            /\ \A n \in DOMAIN m : b.cheapest.price <= m[n]
            /\ b.most_expensive.product \in DOMAIN m
            /\ m[b.most_expensive.product] = b.most_expensive.price
            /\ \A n \in DOMAIN m : b.most_expensive.price >= m[n]

\* C1 witness: the seed's three products compared, B/850 and C/1500 reported.
C1_Witness ==
    /\ Done("compare_prices")
    /\ response.status = 200
    /\ response.body.comparison =
          (ProductA :> 1200) @@ (ProductB :> 850) @@ (ProductC :> 1500)
    /\ response.body.cheapest = [product |-> ProductB, price |-> 850]
    /\ response.body.most_expensive = [product |-> ProductC, price |-> 1500]

\* C2: among the resolved names that share the minimum price, cheapest is
\* the one whose first occurrence in the client's list is earliest, and
\* likewise most_expensive among those that share the maximum price.
C2_TieFirstAsked ==
    Done("compare_prices") /\ response.status = 200 =>
        LET b == response.body
            lowest == {n \in Resolved :
                         \A k \in Resolved :
                            RecordOf(n).current_price <= RecordOf(k).current_price}
            highest == {n \in Resolved :
                          \A k \in Resolved :
                             RecordOf(n).current_price >= RecordOf(k).current_price}
        IN  /\ b.cheapest.product \in lowest
            /\ \A n \in lowest : FirstAsked(b.cheapest.product) <= FirstAsked(n)
            /\ b.most_expensive.product \in highest
            /\ \A n \in highest : FirstAsked(b.most_expensive.product) <= FirstAsked(n)

\* C2 witness: products A and C share the minimum price, the client asked
\* for C before A, and C is reported.
C2_Witness ==
    /\ Done("compare_prices")
    /\ response.status = 200
    /\ \E n \in Resolved \ {response.body.cheapest.product} :
          /\ RecordOf(n).current_price = response.body.cheapest.price
          /\ n = ProductA
    /\ response.body.cheapest.product = ProductC
    /\ response.body.most_expensive.product = ProductB

\* C3: when some asked name resolves, the compared mapping has exactly the
\* distinct trimmed asked names that the catalog holds, each with that
\* product's current price; unknown names raise no error.
C3_ResolveMany ==
    Done("compare_prices") /\ Resolved # {} =>
        /\ response.status = 200
        /\ DOMAIN response.body.comparison = Resolved
        /\ \A n \in Resolved :
              response.body.comparison[n] = RecordOf(n).current_price

\* C3 witness: [A, A, B] gives exactly two entries.
C3_Witness ==
    /\ Done("compare_prices")
    /\ asked = <<ProductA, ProductA, ProductB>>
    /\ response.status = 200
    /\ Cardinality(DOMAIN response.body.comparison) = 2

\* C4: compare answers 400, with no cheapest and no most_expensive, exactly
\* when no asked name resolves; otherwise it answers 200.
C4_NoValidInput ==
    Done("compare_prices") =>
        /\ response.status \in {200, 400}
        /\ response.status = 400 <=> Resolved = {}
        /\ response.status = 400 =>
              /\ "cheapest" \notin DOMAIN response.body
              /\ "most_expensive" \notin DOMAIN response.body
              /\ response.body.success = FALSE

\* C4 witness: the list [" ", ""] is refused.
C4_Witness ==
    /\ Done("compare_prices")
    /\ asked = << <<" ">>, <<>> >>
    /\ response.status = 400

\* C5: price_of answers a catalog name with its full record, and any other
\* name with 404 and the catalog's names in insertion order.
C5_PriceOf ==
    Done("get_product_price") =>
        IF request.product \in CatalogNames
        THEN /\ response.status = 200
             /\ response.body.data = RecordOf(request.product)
        ELSE /\ response.status = 404
             /\ response.body.available_products =
                   <<ProductA, ProductB, ProductC>>

\* C5 witness: an unknown name has been refused.
C5_Witness ==
    /\ Done("get_product_price")
    /\ request.product = <<"c", "p", "X">>
    /\ response.status = 404

\* C6: every 404 for an absent product name, from price_of and from
\* history_of alike, carries the list of available product names.
C6_NotFoundListsNames ==
    (Done("get_product_price") \/ Done("get_price_history"))
        /\ response.status = 404 =>
        /\ "available_products" \in DOMAIN response.body
        /\ response.body.available_products = <<ProductA, ProductB, ProductC>>

\* C7: the catalog stays what the seed made it, and every answer of
\* get_all holds exactly the seeded names, each with its seeded record.
C7_CatalogUnchanged ==
    /\ price_data = seed(0)
    /\ Done("get_all_prices") =>
          /\ response.status = 200
          /\ DOMAIN response.body.data = {ProductA, ProductB, ProductC}
          /\ Cardinality(DOMAIN response.body.data) = Len(seed(0))
          /\ \A i \in 1..Len(seed(0)) :
                response.body.data[seed(0)[i][1]] = seed(0)[i][2]

\* C7 witness: get_all has answered after an earlier request was served.
C7_Witness ==
    /\ Done("get_all_prices")
    /\ now >= 1

\* C8: every catalog record has a non-empty history in date order;
\* history_of and price_of return it for a catalog name, and history_of
\* answers 404 without a history for any other name.
C8_HistoryOrdered ==
    /\ \A n \in CatalogNames : WellOrdered(RecordOf(n).history)
    /\ Done("get_price_history") =>
          IF request.product \in CatalogNames
          THEN /\ response.status = 200
               /\ WellOrdered(response.body.history)
               /\ response.body.history = RecordOf(request.product).history
          ELSE /\ response.status = 404
               /\ "history" \notin DOMAIN response.body
    /\ Done("get_product_price") /\ response.status = 200 =>
          WellOrdered(response.body.data.history)

\* C8 witness: history_of has returned the three entries of product B.
C8_Witness ==
    /\ Done("get_price_history")
    /\ request.product = ProductB
    /\ response.status = 200
    /\ Len(response.body.history) = 3

\* C9: when the compared mapping has a single entry, that name and price
\* are both cheapest and most_expensive.
C9_SingleEntry ==
    Done("compare_prices") /\ response.status = 200
        /\ Cardinality(DOMAIN response.body.comparison) = 1 =>
        \E n \in DOMAIN response.body.comparison :
            /\ response.body.cheapest =
                  [product |-> n, price |-> response.body.comparison[n]]
            /\ response.body.most_expensive =
                  [product |-> n, price |-> response.body.comparison[n]]

\* C9 witness: one product asked for three times, bare and padded.
C9_Witness ==
    /\ Done("compare_prices")
    /\ asked = <<ProductA, <<" ">> \o ProductA \o <<"\t">>, ProductA>>
    /\ response.status = 200
    /\ response.body.cheapest = [product |-> ProductA, price |-> 1200]
    /\ response.body.most_expensive = [product |-> ProductA, price |-> 1200]

\* C10: price_of and history_of succeed exactly on the names the catalog
\* holds as given, so a padded catalog name gets 404 from them; compare of
\* one name succeeds exactly when the trimmed name is in the catalog, so
\* the padded name resolves there, and for a name without surrounding
\* whitespace compare succeeds exactly when price_of does.
C10_TrimOnlyInCompare ==
    /\ Done("get_product_price") \/ Done("get_price_history") =>
          /\ response.status = 200 <=> request.product \in CatalogNames
          /\ (Trimmed(request.product) # request.product
                /\ Trimmed(request.product) \in CatalogNames)
             => response.status = 404
    /\ Done("compare_prices") /\ Len(asked) = 1 =>
          /\ response.status = 200 <=> Trimmed(asked[1]) \in CatalogNames
          /\ Trimmed(asked[1]) = asked[1] =>
                (response.status = 200 <=>
                    get_product_price_view(price_data, now, asked[1]).status = 200)

\* C10 witness: price_of has refused a padded catalog name.
C10_Witness ==
    /\ Done("get_product_price")
    /\ request.product = <<" ">> \o ProductA \o <<"\t">>
    /\ response.status = 404

====
